---- MODULE Spec2Model ----
(***************************************************************************)
(* API-key issuance, rotation and request authentication of the news       *)
(* backend (server.mjs, src/models/ApiKey.js, src/middleware/index.js and  *)
(* the scheduledTasks drafts).                                             *)
(*                                                                         *)
(* Time is counted in slots of CronCleanupHours hours (the period of the   *)
(* most frequent cron entry of server.mjs).  A store operation (a knex     *)
(* query that the code awaits) is one step; the clock may advance between  *)
(* two steps of a task, at most MaxLatency slots while the task is in      *)
(* flight.                                                                 *)
(*                                                                         *)
(* The api_keys schema is not part of the repository.  rotateKeys inserts  *)
(* without is_active, created_at and updated_at and then hands the row out *)
(* as the new key, so the columns are taken to default to TRUE and to the  *)
(* insertion time (ColumnDefaultActive, InsertRotated).                    *)
(***************************************************************************)
EXTENDS Integers, Sequences, FiniteSets, TLC

VARIABLES
    now,          \* the clock, in slots
    store,        \* the api_keys table: id -> row
    nextId,       \* the table's auto-increment counter
    pc,           \* position of the startup task and of the rotation cron task
    newId,        \* per task: id returned by the insert of its rotateKeys call
    age,          \* per task: slots elapsed while the task has been in flight
    sweeps,       \* 6-hourly deleteExpiredKeys calls issued and not yet executed
    connections,  \* ClientConnection.connections: the registered client ids
    solo,         \* history: the task's rotateKeys call has overlapped no other one
    minted,       \* history: the rows returned by completed rotateKeys calls
    req,          \* the protected HTTP request being served
    lastReject,   \* history: reason and reply of the previous rejected request
    seen,         \* history: the kinds of store operation called one after another
    ret,          \* what the operation just run returned, if it was a sweep or a broadcast
    ws,           \* the WebSocket connections: connection id -> session
    during,       \* history: what wrote the table between the two queries of
                  \* a deactivateOldApiKey call
    tick,         \* the scheduled rotation task: policy, position, failure seen
    since         \* history: id -> the instant its row was last made inactive

vars == <<now, store, nextId, pc, newId, age, sweeps, connections, solo, minted,
          req, lastReject, seen, ret, ws, during, tick, since>>
schedVars == <<now, store, nextId, pc, newId, age, sweeps, connections, solo, minted>>
authVars == <<req, lastReject>>

---------------------------------------------------------------------------
(* Bounds of the exploration *)
MaxTime == 9
MaxLatency == 1
MaxAuthTime == 3
MaxRows == 2

(* Program constants *)
RotateExpiryHours == 24
CronRotateHours == 24
CronCleanupHours == 6

KeyLifetime == RotateExpiryHours \div CronCleanupHours
RotatePeriod == CronRotateHours \div CronCleanupHours

Tasks == {"boot", "cron"}
Other(p) == IF p = "boot" THEN "cron" ELSE "boot"

Null == <<>>
Some(r) == <<r>>

\* no deactivation recorded
NoSince == << >>

---------------------------------------------------------------------------
(* The store *)

Ids(s) == DOMAIN s

Row(k, active, expires, created) ==
    [key |-> k, isActive |-> active, expiresAt |-> expires,
     createdAt |-> created, updatedAt |-> created]

ColumnDefaultActive == TRUE

Min(S) == CHOOSE x \in S : \A y \in S : x <= y

\* mutant: the expiry comparison made inclusive
MatchesInclusive(r, k, t) == r.key = k /\ r.isActive = TRUE /\ r.expiresAt >= t

\* .where({ key, is_active: true }).where("expires_at", ">", db.fn.now())
Matches(r, k, t) == r.key = k /\ r.isActive = TRUE /\ r.expiresAt > t

\* ... .first(): the first matching row in primary-key order, or undefined
FindValidKey(s, k, t) ==
    LET hits == {i \in Ids(s) : Matches(s[i], k, t)}
    IN  IF hits = {} THEN Null ELSE Some(s[Min(hits)])

\* .where("expires_at", "<=", db.fn.now()).delete()
ExpiredIds(s, t) == {i \in Ids(s) : s[i].expiresAt <= t}

DeleteExpiredKeys(s, t) == [i \in Ids(s) \ ExpiredIds(s, t) |-> s[i]]

\* mutant: the older rows are deactivated first, the insert comes later
InsertRotatedAfterDeactivation(s, id, t, life) ==
    [i \in Ids(s) |-> [s[i] EXCEPT !.isActive = FALSE]]

\* insert({ key, description, expires_at: Date.now() + 24h })
InsertRotated(s, id, t, life) ==
    s @@ (id :> Row(id, ColumnDefaultActive, t + life, t))

\* mutant: rotateKeys without its update of the other rows
DeactivateNone(s, id) == s

\* mutant: the update without its where("id", "!=", newKey.id)
DeactivateEvery(s, id) ==
    [i \in Ids(s) |-> [s[i] EXCEPT !.isActive = FALSE]]

\* .where("id", "!=", newKey.id).update({ is_active: false })
DeactivateOlder(s, id) ==
    [i \in Ids(s) |-> IF i # id THEN [s[i] EXCEPT !.isActive = FALSE] ELSE s[i]]

ActiveIds(s) == {i \in Ids(s) : s[i].isActive}
ValidIds(s, t) == {i \in Ids(s) : s[i].isActive /\ s[i].expiresAt > t}

\* this.connections.entries(): a Map iterates in insertion order
RECURSIVE Ordered(_)
Ordered(S) == IF S = {} THEN << >> ELSE <<Min(S)>> \o Ordered(S \ {Min(S)})

\* for (const [clientId, connection] of this.connections.entries()) {
\*   try { connection.socket.send(...); count++ }
\*   catch (err) { this.removeConnection(clientId, fastify) } }
RECURSIVE BroadcastLoop(_, _, _)
BroadcastLoop(todo, failing, acc) ==
    IF todo = << >> THEN acc
    ELSE LET c == Head(todo)
             tried == [acc EXCEPT !.sent = @ \cup {c}]
         IN  BroadcastLoop(Tail(todo), failing,
                 IF c \in failing
                 THEN [tried EXCEPT !.registry = @ \ {c}, !.threw = @ \cup {c}]
                 ELSE [tried EXCEPT !.count = @ + 1])

BroadcastStart(conns) ==
    [count |-> 0, registry |-> conns, sent |-> {}, threw |-> {}]

\* broadcastMessage: every entry is sent to; the entries whose send throws
\* are removed
BroadcastMessage(conns, failing) ==
    BroadcastLoop(Ordered(conns), failing, BroadcastStart(conns)).registry

\* the fallback registry of registerWebSocketRoutes:
\* this.connections.forEach((conn) => { try {
\*   if (conn && conn.socket && conn.socket.readyState === 1) { send; count++ }
\* } catch (err) { log } })
RECURSIVE FallbackLoop(_, _, _, _)
FallbackLoop(todo, open, failing, acc) ==
    IF todo = << >> THEN acc
    ELSE LET c == Head(todo)
         IN  FallbackLoop(Tail(todo), open, failing,
                 IF c \notin open THEN acc
                 ELSE IF c \in failing
                 THEN [acc EXCEPT !.sent = @ \cup {c}, !.threw = @ \cup {c}]
                 ELSE [acc EXCEPT !.sent = @ \cup {c}, !.count = @ + 1])

\* mutant: the update without its where({ id })
RevokeKeyUnscoped(s, id) ==
    [i \in Ids(s) |-> [s[i] EXCEPT !.isActive = FALSE]]

\* DELETE /api/keys/:id: .where({ id }).update({ is_active: false })
RevokeKey(s, id) ==
    [i \in Ids(s) |-> IF i = id THEN [s[i] EXCEPT !.isActive = FALSE] ELSE s[i]]

---------------------------------------------------------------------------
(* verifyApiKey and the routes it guards *)

NoHeader == <<>>
Header(k) == <<k>>
HeaderKey(h) == IF h = NoHeader THEN -1 ELSE h[1]

Routes == {"categories", "revoke"}

IdleRequest ==
    [pc |-> "idle", route |-> "categories", hdr |-> NoHeader, arg |-> 0,
     found |-> Null, queries |-> 0, ran |-> FALSE, reply |-> Null,
     reason |-> "none"]

\* mutant: the header is looked up before it is checked
QueriesStoreAlways(h) == TRUE

\* if (!apiKey) { throw new Error("API key required") } comes before the
\* await of findValidKey
QueriesStore(h) == h # NoHeader

\* mutant: the caught error's message is sent to the caller
RejectReplyLeaky(err) ==
    [status |-> 401, success |-> FALSE, message |-> err]

\* catch (err) { return reply.code(401).send({ success: false,
\*                                          message: "Invalid API key" }) }
RejectReply(err) ==
    [status |-> 401, success |-> FALSE, message |-> "Invalid API key"]

\* mutant: the hook sends the 401 and lets the lifecycle go on
AfterRejectionContinues == "handler"

\* the hook returns the sent reply, which ends the request's lifecycle
AfterRejection == "done"

Reject(r, err, why) ==
    [r EXCEPT !.pc = AfterRejection, !.reply = Some(RejectReply(err)),
              !.reason = why]

\* the reply is out: the route and its parameter play no further part
Finish(r) == [r EXCEPT !.pc = "done", !.route = "categories", !.arg = 0]

\* history only: why findValidKey matched no row
Reason(s, k, t) ==
    IF \A i \in Ids(s) : s[i].key # k THEN "unknown"
    ELSE IF \E i \in Ids(s) : s[i].key = k /\ ~s[i].isActive THEN "revoked"
    ELSE "expired"

Rejected(r) == r.pc = "done" /\ r.reason # "none"

---------------------------------------------------------------------------
(* Initial states: the process starts at some slot of the day, with the    *)
(* table as an earlier run left it.                                        *)

\* The WebSocket connections a client may open; a connection's id stands for
\* the clientId the handler would draw for it.
MaxConns == 2
Conns == 1..MaxConns

\* fastify.get("/ws", ...) and fastify.get("/ws/request-api-key", ...)
WsRoutes == {"ws", "request"}

NoSession ==
    [pc |-> "none", route |-> "ws", hdr |-> NoHeader, sock |-> "none",
     closeEvent |-> "none", errors |-> 0, passed |-> FALSE, handlers |-> FALSE,
     openAtAdd |-> TRUE, keySent |-> FALSE, leftFirst |-> FALSE]

NoSessions == [c \in Conns |-> NoSession]

\* the scheduled rotation task before its first run
NoTick ==
    [policy |-> "supersede",  \* which scheduler module is loaded
     db |-> TRUE,             \* setupScheduledTasks was handed the store handle
     pos |-> "idle",          \* position of the run in progress
     setup |-> FALSE,         \* the run is the rotation made at setup
     failed |-> FALSE,        \* history: a store call of this run has failed
     rotated |-> FALSE,       \* history: the rotation of this run went through
     casts |-> 0,             \* history: api_key_rotated broadcasts of this run
     prev |-> 0,              \* history: newest key valid just before this tick
     runs |-> 0,              \* rotation instants the clock has reached
     starts |-> 0]            \* process starts

InitStores(t) ==
    {<< >>}
    \cup {(1 :> [Row(1, a, e, 0) EXCEPT !.updatedAt = 0]) :
              a \in BOOLEAN, e \in {t, t + 2}}

Init ==
    /\ now \in 0..(RotatePeriod - 1)
    /\ store \in InitStores(now)
    /\ nextId = Cardinality(DOMAIN store) + 1
    /\ pc = [p \in Tasks |-> IF p = "boot" THEN "count" ELSE "idle"]
    /\ newId = [p \in Tasks |-> 0]
    /\ age = [p \in Tasks |-> 0]
    /\ sweeps = 0
    /\ connections = {}
    /\ solo = [p \in Tasks |-> TRUE]
    /\ minted = {}
    /\ req = IdleRequest
    /\ lastReject = Null
    /\ seen = {}
    /\ ret = Null
    /\ ws = NoSessions
    /\ during = "none"
    /\ tick = NoTick
    /\ since = NoSince

InFlight(p) == pc[p] \notin {"idle", "done"}
InRotate(p) == pc[p] \in {"insert", "reread", "deactivate"}

---------------------------------------------------------------------------
(* The clock and the cron entries of setupScheduledTasks *)

\* nodeCron.schedule("0 0 * * *", rotateApiKeys) and
\* nodeCron.schedule("0 */6 * * *", deleteExpiredKeys)
Tick ==
    /\ now < MaxTime
    /\ \A p \in Tasks : InFlight(p) => age[p] < MaxLatency
    /\ sweeps <= MaxLatency
    /\ now' = now + 1
    /\ age' = [p \in Tasks |-> IF InFlight(p) THEN age[p] + 1 ELSE 0]
    /\ sweeps' = sweeps + 1
    /\ IF (now + 1) % RotatePeriod = 0 /\ pc["cron"] = "idle"
       THEN pc' = [pc EXCEPT !["cron"] = "select"]
       ELSE pc' = pc
    /\ UNCHANGED <<store, nextId, newId, connections, solo, minted>>
    /\ UNCHANGED <<authVars, seen, ret, ws, during, tick, since>>

\* the 6-hourly cron entry: await models.ApiKey.deleteExpiredKeys()
CleanupSweep ==
    /\ sweeps > 0
    /\ sweeps' = sweeps - 1
    /\ store' = DeleteExpiredKeys(store, now)
    /\ UNCHANGED <<now, nextId, pc, newId, age, connections, solo, minted>>
    /\ UNCHANGED <<authVars, seen, ret, ws, during, tick, since>>

EnterRotate(p) ==
    /\ solo' = IF InRotate(Other(p))
               THEN [q \in Tasks |-> FALSE]
               ELSE [solo EXCEPT ![p] = TRUE]

\* rotateApiKeys: await db.raw("SELECT 1")
CronSelect ==
    /\ pc["cron"] = "select"
    /\ pc' = [pc EXCEPT !["cron"] = "insert"]
    /\ EnterRotate("cron")
    /\ UNCHANGED <<now, store, nextId, newId, age, sweeps, connections, minted>>
    /\ UNCHANGED <<authVars, seen, ret, ws, during, tick, since>>

\* startServer: const keysCount = await db("api_keys").count(...).first()
BootCount ==
    /\ pc["boot"] = "count"
    /\ IF Cardinality(Ids(store)) = 0
       THEN /\ pc' = [pc EXCEPT !["boot"] = "insert"]
            /\ EnterRotate("boot")
       ELSE /\ pc' = [pc EXCEPT !["boot"] = "done"]
            /\ solo' = solo
    /\ UNCHANGED <<now, store, nextId, newId, age, sweeps, connections, minted>>
    /\ UNCHANGED <<authVars, seen, ret, ws, during, tick, since>>

---------------------------------------------------------------------------
(* ApiKey.rotateKeys, one step per awaited query *)

RotateInsert(p) ==
    /\ pc[p] = "insert"
    /\ store' = InsertRotated(store, nextId, now, KeyLifetime)
    /\ newId' = [newId EXCEPT ![p] = nextId]
    /\ nextId' = nextId + 1
    /\ pc' = [pc EXCEPT ![p] = "reread"]
    /\ UNCHANGED <<now, age, sweeps, connections, solo, minted>>
    /\ UNCHANGED <<authVars, seen, ret, ws, during, tick, since>>

\* const newKey = await db(this.tableName).where({ id }).first()
RotateReread(p) ==
    /\ pc[p] = "reread"
    /\ newId[p] \in Ids(store)
    /\ pc' = [pc EXCEPT ![p] = "deactivate"]
    /\ UNCHANGED <<now, store, nextId, newId, age, sweeps, connections, solo, minted>>
    /\ UNCHANGED <<authVars, seen, ret, ws, during, tick, since>>

\* the update, then return newKey; rotateApiKeys goes on to broadcast
\* api_key_rotated (synchronous) and awaits deleteExpiredKeys
RotateDeactivate(p) ==
    /\ pc[p] = "deactivate"
    /\ store' = DeactivateOlder(store, newId[p])
    /\ minted' = minted \cup {[id |-> newId[p], key |-> newId[p],
                               expiresAt |-> store[newId[p]].expiresAt]}
    /\ IF p = "cron"
       THEN /\ pc' = [pc EXCEPT ![p] = "sweep"]
            /\ \E failing \in SUBSET connections :
                   connections' = BroadcastMessage(connections, failing)
       ELSE /\ pc' = [pc EXCEPT ![p] = "done"]
            /\ connections' = connections
    /\ UNCHANGED <<now, nextId, newId, age, sweeps, solo>>
    /\ UNCHANGED <<authVars, seen, ret, ws, during, tick, since>>

\* rotateApiKeys: await models.ApiKey.deleteExpiredKeys()
CronDeleteExpired ==
    /\ pc["cron"] = "sweep"
    /\ store' = DeleteExpiredKeys(store, now)
    /\ pc' = [pc EXCEPT !["cron"] = "idle"]
    /\ UNCHANGED <<now, nextId, newId, age, sweeps, connections, solo, minted>>
    /\ UNCHANGED <<authVars, seen, ret, ws, during, tick, since>>

---------------------------------------------------------------------------
(* A protected request: the verifyApiKey hook, then the route handler *)

Receive(route, h, a) ==
    /\ req.pc \in {"idle", "done"}
    /\ LET fresh == [IdleRequest EXCEPT !.route = route, !.hdr = h, !.arg = a]
       IN  req' = IF QueriesStore(h)
                  THEN [fresh EXCEPT !.pc = "finding", !.queries = 1]
                  ELSE Reject(fresh, "API key required", "missing")
    /\ lastReject' = IF Rejected(req)
                     THEN Some([reason |-> req.reason, reply |-> req.reply])
                     ELSE lastReject
    /\ UNCHANGED <<schedVars, seen, ret, ws, during, tick, since>>

\* const validKey = await models.ApiKey.findValidKey(apiKey)
FindValidReturns ==
    /\ req.pc = "finding"
    /\ LET k == HeaderKey(req.hdr)
           f == FindValidKey(store, k, now)
       IN  req' = IF f = Null
                  THEN Reject(req, "Invalid API key", Reason(store, k, now))
                  ELSE [req EXCEPT !.pc = "handler", !.found = f]
    /\ UNCHANGED <<schedVars, lastReject, seen, ret, ws, during, tick, since>>

\* findValidKey rethrows the query's error
FindValidThrows ==
    /\ req.pc = "finding"
    /\ req' = Reject(req, "store error", "error")
    /\ UNCHANGED <<schedVars, lastReject, seen, ret, ws, during, tick, since>>

Reply(code) == [status |-> code, success |-> code = 200, message |-> "handler"]

\* the handlers of GET /api/categories and DELETE /api/keys/:id
Handler ==
    /\ req.pc = "handler"
    /\ store' = IF req.route = "revoke" THEN RevokeKey(store, req.arg) ELSE store
    /\ LET code == IF req.route = "revoke" /\ req.arg \notin Ids(store)
                   THEN 404 ELSE 200
       IN  req' = Finish([req EXCEPT !.ran = TRUE,
                                     !.reply = IF req.reply = Null
                                               THEN Some(Reply(code)) ELSE @])
    /\ UNCHANGED <<now, nextId, pc, newId, age, sweeps, connections, solo,
                   minted, lastReject, seen, ret, ws, during, tick, since>>

---------------------------------------------------------------------------
Next ==
    \/ Tick
    \/ CleanupSweep
    \/ CronSelect
    \/ BootCount
    \/ \E p \in Tasks : RotateInsert(p)
    \/ \E p \in Tasks : RotateReread(p)
    \/ \E p \in Tasks : RotateDeactivate(p)
    \/ CronDeleteExpired

Spec == Init /\ [][Next]_vars

(* The request authenticator against a table that an earlier run left in   *)
(* any state, with the clock, the expiry sweeps and the requests' own      *)
(* revocations going on between the steps of a request.                    *)
Tokens == 0..(nextId - 1)
Headers == {NoHeader} \cup {Header(k) : k \in Tokens}

RECURSIVE Tables(_, _)
Tables(n, t) ==
    IF n = 0 THEN {<< >>}
    ELSE LET smaller == Tables(n - 1, t)
         IN  smaller \cup
             {s @@ (n :> [Row(n, a, e, 0) EXCEPT !.updatedAt = 0]) :
                  s \in {x \in smaller : Cardinality(Ids(x)) = n - 1},
                  a \in BOOLEAN, e \in {t, t + 2}}

AuthInit ==
    /\ now = 0
    /\ store \in Tables(MaxRows, 0)
    /\ nextId = Cardinality(DOMAIN store) + 1
    /\ pc = [p \in Tasks |-> IF p = "boot" THEN "done" ELSE "idle"]
    /\ newId = [p \in Tasks |-> 0]
    /\ age = [p \in Tasks |-> 0]
    /\ sweeps = 0
    /\ connections = {}
    /\ solo = [p \in Tasks |-> TRUE]
    /\ minted = {}
    /\ req = IdleRequest
    /\ lastReject = Null
    /\ seen = {}
    /\ ret = Null
    /\ ws = NoSessions
    /\ during = "none"
    /\ tick = NoTick
    /\ since = NoSince

AuthTick == now < MaxAuthTime /\ Tick

AuthNext ==
    \/ AuthTick
    \/ CleanupSweep
    \/ \E h \in Headers : Receive("categories", h, 0)
    \/ \E h \in Headers, a \in Ids(store) \cup {0} : Receive("revoke", h, a)
    \/ FindValidReturns
    \/ FindValidThrows
    \/ Handler

SpecAuth == AuthInit /\ [][AuthNext]_vars

---------------------------------------------------------------------------
(* The store operations of both rotation policies called one after another,
   each call run to completion before the next.  The clock of this
   specification counts steps of StepMinutes minutes. *)

MaxOpsRows == 3

StepMinutes == 10
OverlapExpiryMinutes == 70
PurgeAfterDays == 7

RotatedLifetime == (RotateExpiryHours * 60) \div StepMinutes
OverlapLifetime == OverlapExpiryMinutes \div StepMinutes
PurgeAge == (PurgeAfterDays * 24 * 60) \div StepMinutes

\* the instants at which the operations are called
Instants ==
    {0, 1, OverlapLifetime, OverlapLifetime + 1, RotatedLifetime, PurgeAge + 2}

\* rotateApiKeys of the overlap policy: insert({ ..., is_active: true,
\* expires_at: now + 70 min, created_at, updated_at }), no deactivation
InsertOverlapping(s, id, t) ==
    s @@ (id :> Row(id, TRUE, t + OverlapLifetime, t))

\* mutant: the rows are read in ascending order of created_at
LatestActiveAscending(s) ==
    {i \in ActiveIds(s) : \A j \in ActiveIds(s) : s[i].createdAt <= s[j].createdAt}

\* .where("is_active", true).orderBy("created_at", "desc").first(): with
\* equal created_at the store may return any of the newest rows
LatestActive(s) ==
    {i \in ActiveIds(s) : \A j \in ActiveIds(s) : s[j].createdAt <= s[i].createdAt}

\* mutant: the deactivation also ends the row's validity period
DeactivateOldApiKeyExpiring(s, latest, t) ==
    [i \in Ids(s) |->
        IF s[i].isActive /\ i # latest
        THEN [s[i] EXCEPT !.isActive = FALSE, !.updatedAt = t, !.expiresAt = t]
        ELSE s[i]]

\* .where("is_active", true).where("id", "!=", latestActiveKey.id)
\*   .update({ is_active: false, updated_at: new Date() })
DeactivateOldApiKey(s, latest, t) ==
    [i \in Ids(s) |->
        IF s[i].isActive /\ i # latest
        THEN [s[i] EXCEPT !.isActive = FALSE, !.updatedAt = t]
        ELSE s[i]]

\* .where("expires_at", "<", new Date()).delete()
CleanupExpiredApiKeys(s, t) ==
    [i \in {j \in Ids(s) : ~(s[j].expiresAt < t)} |-> s[i]]

\* .where("is_active", false).where("updated_at", "<", cutoffDate).delete()
CleanupOldApiKeys(s, t) ==
    [i \in {j \in Ids(s) : ~(~s[j].isActive /\ s[j].updatedAt < t - PurgeAge)}
        |-> s[i]]

\* ApiKey.rotateKeys run to completion: insert, re-read, deactivate the others
RotateKeys(s, id, t) ==
    DeactivateOlder(InsertRotated(s, id, t, RotatedLifetime), id)

\* the value an operation handed back to its caller
Returned(op, value) == Some([op |-> op, value |-> value])

OpsInit ==
    /\ now = 0
    /\ store = << >>
    /\ nextId = 1
    /\ pc = [p \in Tasks |-> IF p = "boot" THEN "done" ELSE "idle"]
    /\ newId = [p \in Tasks |-> 0]
    /\ age = [p \in Tasks |-> 0]
    /\ sweeps = 0
    /\ connections = {}
    /\ solo = [p \in Tasks |-> TRUE]
    /\ minted = {}
    /\ req = IdleRequest
    /\ lastReject = Null
    /\ seen = {}
    /\ ret = Null
    /\ ws = NoSessions
    /\ during = "none"
    /\ tick = NoTick
    /\ since = NoSince

opsFrame == <<age, sweeps, connections, solo, minted, req, lastReject, ws, tick, since>>

\* deactivateOldApiKey is between its two awaited queries
Deactivating == pc["cron"] = "latest"

\* another operation changed the table between the two queries: a rotation,
\* or another write
Interleaved(kind) ==
    during' = IF ~Deactivating \/ store' = store THEN during
              ELSE IF kind = "rotate" \/ during = "rotate" THEN "rotate"
              ELSE "write"

OpsTick ==
    /\ \E t \in Instants : t > now /\ now' = t
    /\ ret' = Null
    /\ UNCHANGED <<store, nextId, pc, newId, seen, during, opsFrame>>

OpRotateKeys ==
    /\ nextId <= MaxOpsRows
    /\ store' = RotateKeys(store, nextId, now)
    /\ nextId' = nextId + 1
    /\ seen' = seen \cup {"rotateKeys"}
    /\ ret' = Null
    /\ Interleaved("rotate")
    /\ UNCHANGED <<now, pc, newId, opsFrame>>

OpRotateApiKeys ==
    /\ nextId <= MaxOpsRows
    /\ store' = InsertOverlapping(store, nextId, now)
    /\ nextId' = nextId + 1
    /\ seen' = seen \cup {"rotateApiKeys"}
    /\ ret' = Null
    /\ Interleaved("rotate")
    /\ UNCHANGED <<now, pc, newId, opsFrame>>

\* const latestActiveKey = await db("api_keys").where("is_active", true)
\*   .orderBy("created_at", "desc").first();
\* if (!latestActiveKey) { ...; return }
OpLatestActiveKey ==
    /\ ~Deactivating
    /\ IF LatestActive(store) = {}
       THEN UNCHANGED <<pc, newId>>
       ELSE \E latest \in LatestActive(store) :
                /\ pc' = [pc EXCEPT !["cron"] = "latest"]
                /\ newId' = [newId EXCEPT !["cron"] = latest]
    /\ seen' = seen \cup {"other"}
    /\ ret' = Null
    /\ UNCHANGED <<now, store, nextId, during, opsFrame>>

\* const deactivated = await db("api_keys") ... .update({ ... })
OpDeactivateOldApiKey ==
    /\ Deactivating
    /\ store' = DeactivateOldApiKey(store, newId["cron"], now)
    /\ pc' = [pc EXCEPT !["cron"] = "idle"]
    /\ newId' = [newId EXCEPT !["cron"] = 0]
    /\ during' = "none"
    /\ ret' = Null
    /\ UNCHANGED <<now, nextId, seen, opsFrame>>

OpRevoke ==
    /\ \E id \in Ids(store) : store' = RevokeKey(store, id)
    /\ seen' = seen \cup {"other"}
    /\ Interleaved("write")
    /\ ret' = Null
    /\ UNCHANGED <<now, nextId, pc, newId, opsFrame>>

\* const deleted = await ... .delete(); return deleted
OpDeleteExpiredKeys ==
    /\ store' = DeleteExpiredKeys(store, now)
    /\ ret' = Returned("deleteExpiredKeys",
                       Some(Cardinality(Ids(store)) - Cardinality(Ids(store'))))
    /\ seen' = seen \cup {"other"}
    /\ Interleaved("write")
    /\ UNCHANGED <<now, nextId, pc, newId, opsFrame>>

\* the count is logged; the function returns nothing
OpCleanupExpiredApiKeys ==
    /\ store' = CleanupExpiredApiKeys(store, now)
    /\ ret' = Returned("cleanupExpiredApiKeys", Null)
    /\ seen' = seen \cup {"other"}
    /\ Interleaved("write")
    /\ UNCHANGED <<now, nextId, pc, newId, opsFrame>>

OpCleanupOldApiKeys ==
    /\ store' = CleanupOldApiKeys(store, now)
    /\ seen' = seen \cup {"other"}
    /\ Interleaved("write")
    /\ ret' = Null
    /\ UNCHANGED <<now, nextId, pc, newId, opsFrame>>

OpsNext ==
    \/ OpsTick
    \/ OpRotateKeys
    \/ OpRotateApiKeys
    \/ OpLatestActiveKey
    \/ OpDeactivateOldApiKey
    \/ OpRevoke
    \/ OpDeleteExpiredKeys
    \/ OpCleanupExpiredApiKeys
    \/ OpCleanupOldApiKeys

SpecOps == OpsInit /\ [][OpsNext]_vars

---------------------------------------------------------------------------
(* The WebSocket endpoints and the connection registry.  The table is fixed
   during a run; clients connect, are authenticated, close their sockets,
   ask for the key and are broadcast to, in any order. *)

wsFrame == <<now, store, nextId, pc, newId, age, sweeps, solo, minted, req,
             lastReject, seen, during, tick, since>>

WsInit ==
    /\ now = 0
    /\ store \in Tables(1, 0)
    /\ nextId = Cardinality(DOMAIN store) + 1
    /\ pc = [p \in Tasks |-> IF p = "boot" THEN "done" ELSE "idle"]
    /\ newId = [p \in Tasks |-> 0]
    /\ age = [p \in Tasks |-> 0]
    /\ sweeps = 0
    /\ connections = {}
    /\ solo = [p \in Tasks |-> TRUE]
    /\ minted = {}
    /\ req = IdleRequest
    /\ lastReject = Null
    /\ seen = {}
    /\ ret = Null
    /\ ws = NoSessions
    /\ during = "none"
    /\ tick = NoTick
    /\ since = NoSince

OpenSockets == {c \in Conns : ws[c].sock = "open"}

\* socket.send(error frame); socket.close(); return false
\* (a frame written to a socket the client has left reaches nobody)
Refuse(w, frames) ==
    [w EXCEPT !.pc = "rejected",
              !.errors = IF w.sock = "open" THEN frames ELSE 0,
              !.sock = "closed"]

\* addConnection(clientId, connection); ...; socket.on("close", ...)
Register(w, authenticated) ==
    [w EXCEPT !.pc = "registered", !.passed = authenticated,
              !.openAtAdd = (w.sock = "open"), !.handlers = TRUE]

\* the handler of a route up to its first await
WsConnect(c, route, h) ==
    /\ ws[c].pc = "none"
    /\ route \in WsRoutes
    /\ LET w == [NoSession EXCEPT !.route = route, !.hdr = h, !.sock = "open"]
       IN  IF route = "request"
           THEN /\ ws' = [ws EXCEPT ![c] = Register(w, FALSE)]
                /\ connections' = connections \cup {c}
           ELSE /\ ws' = [ws EXCEPT ![c] = IF h = NoHeader THEN Refuse(w, 1)
                                           ELSE [w EXCEPT !.pc = "finding"]]
                /\ UNCHANGED connections
    /\ UNCHANGED <<ret, wsFrame>>

\* const validKey = await models.ApiKey.findValidKey(apiKey) has returned
WsFindReturns(c) ==
    /\ ws[c].pc = "finding"
    /\ IF FindValidKey(store, HeaderKey(ws[c].hdr), now) = Null
       THEN /\ ws' = [ws EXCEPT ![c] = Refuse(@, 1)]
            /\ UNCHANGED connections
       ELSE /\ ws' = [ws EXCEPT ![c] = Register(@, TRUE)]
            /\ connections' = connections \cup {c}
    /\ UNCHANGED <<ret, wsFrame>>

\* findValidKey has thrown: catch (err) { connection.socket.close(); return false }
WsFindThrows(c) ==
    /\ ws[c].pc = "finding"
    /\ ws' = [ws EXCEPT ![c] = Refuse(@, 0)]
    /\ UNCHANGED <<connections, ret, wsFrame>>

\* the client (or the network) closes the socket
SocketClose(c) ==
    /\ ws[c].sock = "open"
    /\ ws' = [ws EXCEPT ![c].sock = "closed", ![c].closeEvent = "pending",
                        ![c].leftFirst = (ws[c].pc = "finding")]
    /\ UNCHANGED <<connections, ret, wsFrame>>

\* the socket's "close" event reaches the listeners attached by then:
\* socket.on("close", () => models.ClientConnection.removeConnection(clientId))
EmitClose(c) ==
    /\ ws[c].closeEvent = "pending"
    /\ ws' = [ws EXCEPT ![c].closeEvent = "emitted"]
    /\ connections' = IF ws[c].handlers THEN connections \ {c} ELSE connections
    /\ UNCHANGED <<ret, wsFrame>>

\* dapatkanApiKeyTerbaru: where({ is_active: true })
\*   .where("expires_at", ">", db.fn.now()).orderBy("created_at", "desc").first()
\* on the handle tableName._knex || tableName.knex || require("knex")();
\* without a usable handle the catch returns null
DapatkanApiKeyTerbaru(s, t, handle) ==
    LET valid == ValidIds(s, t)
        newest == {i \in valid : \A j \in valid : s[j].createdAt <= s[i].createdAt}
    IN  IF handle /\ newest # {} THEN Some(s[Min(newest)]) ELSE Null

\* a client's request_api_key message: handleRequestApiKey sends
\* { action: "api_key_response", key: apiKey.key, expires_at } when the lookup
\* returned a row, an error frame otherwise
WsRequestApiKey(c) ==
    /\ ws[c].pc = "registered"
    /\ ws[c].sock = "open"
    /\ \E handle \in BOOLEAN :
         ws' = [ws EXCEPT ![c].keySent =
                   @ \/ DapatkanApiKeyTerbaru(store, now, handle) # Null]
    /\ UNCHANGED <<connections, ret, wsFrame>>

\* models.ClientConnection.broadcastMessage(message)
WsBroadcast ==
    /\ \E failing \in SUBSET connections :
         LET b == BroadcastLoop(Ordered(connections), failing,
                                BroadcastStart(connections))
         IN  /\ connections' = BroadcastMessage(connections, failing)
             /\ ret' = Returned("broadcastMessage",
                                [count |-> b.count, sent |-> b.sent, threw |-> b.threw])
    /\ UNCHANGED <<ws, wsFrame>>

\* broadcastMessage of the fallback registry
WsBroadcastFallback ==
    /\ \E failing \in SUBSET connections :
         LET b == FallbackLoop(Ordered(connections), OpenSockets, failing,
                               BroadcastStart(connections))
         IN  /\ connections' = b.registry
             /\ ret' = Returned("broadcastMessage",
                                [count |-> b.count, sent |-> b.sent, threw |-> b.threw])
    /\ UNCHANGED <<ws, wsFrame>>

WsNext ==
    \/ \E c \in Conns, h \in Headers : WsConnect(c, "ws", h)
    \/ \E c \in Conns : WsConnect(c, "request", NoHeader)
    \/ \E c \in Conns : WsFindReturns(c)
    \/ \E c \in Conns : WsFindThrows(c)
    \/ \E c \in Conns : SocketClose(c)
    \/ \E c \in Conns : EmitClose(c)
    \/ \E c \in Conns : WsRequestApiKey(c)
    \/ WsBroadcast
    \/ WsBroadcastFallback

SpecWs == WsInit /\ [][WsNext]_vars

\* the event loop delivers every pending close event and every store reply
WsFairness ==
    \A c \in Conns : /\ WF_vars(EmitClose(c))
                      /\ WF_vars(WsFindReturns(c) \/ WsFindThrows(c))

SpecWsFair == SpecWs /\ WsFairness

---------------------------------------------------------------------------
(* The scheduled rotation task with a store that may fail at any call.  One
   policy per run: rotateApiKeys of the daily cron entry, which rotates,
   broadcasts and sweeps in one function, or the hourly cron entry of the
   overlap policy, which creates a key and arms the 10-minute timer of
   deactivateOldApiKey; that policy also creates a key when it is set up. *)

MaxTicks == 2
MaxStarts == 2
CronOverlapMinutes == 60

Policies == {"supersede", "overlap"}

TickPeriod(policy) ==
    IF policy = "overlap" THEN CronOverlapMinutes \div StepMinutes
    ELSE (CronRotateHours * 60) \div StepMinutes

tickFrame == <<pc, age, sweeps, solo, minted, req, lastReject, seen, ret, ws, during,
               since>>

\* setupScheduledTasks of the overlap policy: without the store handle it
\* returns before scheduling anything; with it, it runs rotateApiKeys once
Setup(t) ==
    [t EXCEPT !.pos = IF t.policy = "overlap" /\ t.db THEN "select" ELSE "idle",
              !.setup = t.policy = "overlap" /\ t.db,
              !.failed = FALSE, !.rotated = FALSE, !.casts = 0, !.prev = 0,
              !.starts = @ + 1]

\* a cron entry for the rotation exists
Scheduled(t) == t.policy = "supersede" \/ t.db

TickInit ==
    /\ store = << >>
    /\ nextId = 1
    /\ pc = [p \in Tasks |-> IF p = "boot" THEN "done" ELSE "idle"]
    /\ newId = [p \in Tasks |-> 0]
    /\ age = [p \in Tasks |-> 0]
    /\ sweeps = 0
    /\ connections = Conns
    /\ solo = [p \in Tasks |-> TRUE]
    /\ minted = {}
    /\ req = IdleRequest
    /\ lastReject = Null
    /\ seen = {}
    /\ ret = Null
    /\ ws = NoSessions
    /\ during = "none"
    /\ since = NoSince
    /\ \E policy \in Policies, db \in BOOLEAN :
           /\ tick = Setup([NoTick EXCEPT !.policy = policy, !.db = db])
           /\ now \in IF policy = "overlap" THEN 0..(TickPeriod(policy) - 1) ELSE {0}

\* catch (err) { fastify.log.error(...) }: the function returns
Caught(t) == [t EXCEPT !.pos = "idle", !.failed = TRUE]

\* the hourly callback after await rotateApiKeys(...), whatever it returned:
\* setTimeout(deactivateOldApiKey, 10 min); the call made at setup arms no timer
AfterRotateApiKeys(t) ==
    [t EXCEPT !.pos = IF t.setup THEN "idle" ELSE "timer"]

\* the rows that are active and unexpired at every instant before t
ValidUntil(s, t) == {i \in ActiveIds(s) : s[i].expiresAt >= t}

\* the newest of them, 0 when there is none
NewestValidBefore(s, t) ==
    IF ValidUntil(s, t) = {} THEN {0}
    ELSE {i \in ValidUntil(s, t) :
              \A j \in ValidUntil(s, t) : s[j].createdAt <= s[i].createdAt}

\* the clock reaches the next instant of the rotation's cron expression; a
\* scheduled entry starts its callback
CronFire ==
    /\ tick.pos = "idle"
    /\ tick.runs < MaxTicks
    /\ now' = ((now \div TickPeriod(tick.policy)) + 1) * TickPeriod(tick.policy)
    /\ \E k \in NewestValidBefore(store, now') :
           tick' = [tick EXCEPT !.pos = IF Scheduled(tick) THEN "select" ELSE "idle",
                                !.setup = FALSE, !.failed = FALSE,
                                !.rotated = FALSE, !.casts = 0,
                                !.prev = IF tick.policy = "overlap" THEN k ELSE 0,
                                !.runs = @ + 1]
    /\ UNCHANGED <<store, nextId, newId, connections, tickFrame>>

\* the process is stopped and started again: pending timers and calls in
\* flight are lost, setupScheduledTasks runs anew
Restart ==
    /\ tick.policy = "overlap"
    /\ tick.starts < MaxStarts
    /\ tick' = Setup(tick)
    /\ UNCHANGED <<now, store, nextId, newId, connections, tickFrame>>

\* try { await db.raw("SELECT 1") } catch (dbErr) { ...; return }: without a
\* store handle db.raw throws inside the same try
TickSelect ==
    /\ tick.pos = "select"
    /\ IF ~tick.db
       THEN tick' = [tick EXCEPT !.pos = "idle"]
       ELSE \E ok \in BOOLEAN :
                tick' = IF ok THEN [tick EXCEPT !.pos = "insert"]
                        ELSE IF tick.policy = "overlap"
                        THEN AfterRotateApiKeys([tick EXCEPT !.failed = TRUE])
                        ELSE Caught(tick)
    /\ UNCHANGED <<now, store, nextId, newId, connections, tickFrame>>

\* the insert of rotateKeys, or of the overlap policy's rotateApiKeys
TickInsert ==
    /\ tick.pos = "insert"
    /\ \E ok \in BOOLEAN :
           IF ~ok
           THEN /\ tick' = IF tick.policy = "overlap"
                           THEN AfterRotateApiKeys([tick EXCEPT !.failed = TRUE])
                           ELSE Caught(tick)
                /\ UNCHANGED <<store, nextId, newId>>
           ELSE /\ nextId' = nextId + 1
                /\ newId' = [newId EXCEPT !["cron"] = nextId]
                /\ IF tick.policy = "overlap"
                   THEN /\ store' = InsertOverlapping(store, nextId, now)
                        /\ tick' = AfterRotateApiKeys([tick EXCEPT !.rotated = TRUE])
                   ELSE /\ store' = InsertRotated(store, nextId, now, RotatedLifetime)
                        /\ tick' = [tick EXCEPT !.pos = "reread"]
    /\ UNCHANGED <<now, connections, tickFrame>>

\* const newKey = await db(this.tableName).where({ id }).first()
TickReread ==
    /\ tick.pos = "reread"
    /\ \E ok \in BOOLEAN :
           tick' = IF ok THEN [tick EXCEPT !.pos = "deactivate"] ELSE Caught(tick)
    /\ UNCHANGED <<now, store, nextId, newId, connections, tickFrame>>

\* await db(this.tableName).where("id", "!=", newKey.id).update(...)
TickDeactivate ==
    /\ tick.pos = "deactivate"
    /\ \E ok \in BOOLEAN :
           IF ok
           THEN /\ store' = DeactivateOlder(store, newId["cron"])
                /\ tick' = [tick EXCEPT !.pos = "broadcast", !.rotated = TRUE]
           ELSE /\ store' = store
                /\ tick' = Caught(tick)
    /\ UNCHANGED <<now, nextId, newId, connections, tickFrame>>

\* models.ClientConnection.broadcastMessage({ ... }): a send that throws is
\* caught inside the loop
TickBroadcast ==
    /\ tick.pos = "broadcast"
    /\ \E failing \in SUBSET connections :
           connections' = BroadcastMessage(connections, failing)
    /\ tick' = [tick EXCEPT !.pos = "cleanup", !.casts = @ + 1]
    /\ UNCHANGED <<now, store, nextId, newId, tickFrame>>

\* await models.ApiKey.deleteExpiredKeys()
TickCleanup ==
    /\ tick.pos = "cleanup"
    /\ \E ok \in BOOLEAN :
           IF ok
           THEN /\ store' = DeleteExpiredKeys(store, now)
                /\ tick' = [tick EXCEPT !.pos = "idle"]
           ELSE /\ store' = store
                /\ tick' = Caught(tick)
    /\ UNCHANGED <<now, nextId, newId, connections, tickFrame>>

\* the timer armed by the hourly callback expires
TimerFires ==
    /\ tick.pos = "timer"
    /\ now' = now + 1
    /\ tick' = [tick EXCEPT !.pos = "check"]
    /\ UNCHANGED <<store, nextId, newId, connections, tickFrame>>

\* deactivateOldApiKey: try { await db.raw("SELECT 1") } catch { ...; return }
TickCheck ==
    /\ tick.pos = "check"
    /\ \E ok \in BOOLEAN :
           tick' = IF ok THEN [tick EXCEPT !.pos = "latest"] ELSE Caught(tick)
    /\ UNCHANGED <<now, store, nextId, newId, connections, tickFrame>>

\* deactivateOldApiKey: the read of the newest active row
TickLatest ==
    /\ tick.pos = "latest"
    /\ \E ok \in BOOLEAN :
           IF ~ok
           THEN tick' = Caught(tick) /\ newId' = newId
           ELSE IF LatestActive(store) = {}
           THEN tick' = [tick EXCEPT !.pos = "idle"] /\ newId' = newId
           ELSE \E latest \in LatestActive(store) :
                    /\ newId' = [newId EXCEPT !["cron"] = latest]
                    /\ tick' = [tick EXCEPT !.pos = "update"]
    /\ UNCHANGED <<now, store, nextId, connections, tickFrame>>

\* deactivateOldApiKey: the update of the other active rows
TickUpdate ==
    /\ tick.pos = "update"
    /\ \E ok \in BOOLEAN :
           IF ok
           THEN /\ store' = DeactivateOldApiKey(store, newId["cron"], now)
                /\ tick' = [tick EXCEPT !.pos = "idle"]
           ELSE /\ store' = store
                /\ tick' = Caught(tick)
    /\ UNCHANGED <<now, nextId, newId, connections, tickFrame>>

TickNext ==
    \/ CronFire
    \/ Restart
    \/ TickSelect
    \/ TickInsert
    \/ TickReread
    \/ TickDeactivate
    \/ TickBroadcast
    \/ TickCleanup
    \/ TimerFires
    \/ TickCheck
    \/ TickLatest
    \/ TickUpdate

SpecTick == TickInit /\ [][TickNext]_vars

---------------------------------------------------------------------------
(* The single-active-key policy with its administrative routes: rotateKeys
   calls run to completion one after another (startup or cron), keys are
   created by POST /api/keys/generate and revoked by DELETE /api/keys/:id. *)

GenerateDefaultDays == 30

\* expiresAt.setDate(expiresAt.getDate() + (expiresInDays || 30))
GeneratedLifetime(days) ==
    ((IF days = 0 THEN GenerateDefaultDays ELSE days) * 24 * 60) \div StepMinutes

\* insert({ key, description, expires_at: expiresAt, is_active: true })
InsertGenerated(s, id, t, days) ==
    s @@ (id :> Row(id, TRUE, t + GeneratedLifetime(days), t))

\* POST /api/keys/generate with expiresInDays absent (0) or given
OpGenerate ==
    /\ nextId <= MaxOpsRows
    /\ \E days \in {0, 1} : store' = InsertGenerated(store, nextId, now, days)
    /\ nextId' = nextId + 1
    /\ seen' = seen \cup {"other"}
    /\ ret' = Null
    /\ Interleaved("write")
    /\ UNCHANGED <<now, pc, newId, opsFrame>>

AdminNext ==
    \/ OpsTick
    \/ OpRotateKeys
    \/ OpGenerate
    \/ OpRevoke

SpecAdmin == OpsInit /\ [][AdminNext]_vars

---------------------------------------------------------------------------
(* The verifyAdmin decorator that guards the routes of routes/apiKeys.js   *)

\* request.user as the hooks before verifyAdmin left it
Users == {"none", "user", "admin"}

\* mutant: verifyApiKey runs with the Fastify instance as its receiver
VerifyApiKeyReceiverBound == "fastify"

\* const apiKeyAuth = await verifyApiKey(request, reply): a plain call of a
\* module's function, whose this is undefined
VerifyApiKeyReceiver == "undefined"

\* verifyApiKey as verifyAdmin calls it. Without a receiver the first
\* this.log call throws inside the try, the catch block's this.log.error
\* throws again, and the error leaves the function before any query and
\* before any reply. With a receiver it sends the 401 and returns the reply,
\* or returns nothing once the key is found.
VerifyApiKey(self, h, s, t, thrown) ==
    IF self = "undefined"
    THEN [threw |-> TRUE, value |-> "none", sends |-> <<>>, queries |-> 0,
          found |-> Null]
    ELSE IF ~QueriesStore(h)
    THEN [threw |-> FALSE, value |-> "reply", sends |-> <<401>>,
          queries |-> 0, found |-> Null]
    ELSE IF thrown \/ FindValidKey(s, HeaderKey(h), t) = Null
    THEN [threw |-> FALSE, value |-> "reply", sends |-> <<401>>,
          queries |-> 1, found |-> Null]
    ELSE [threw |-> FALSE, value |-> "none", sends |-> <<>>, queries |-> 1,
          found |-> FindValidKey(s, HeaderKey(h), t)]

\* the body of the decorator: the calls of reply.code(..).send(..) it and
\* verifyApiKey make, in order
VerifyAdminSends(auth, user) ==
    IF auth.threw THEN auth.sends \o <<500>>
    ELSE IF auth.value = "none" THEN auth.sends
    ELSE IF user # "admin" THEN auth.sends \o <<403>>
    ELSE auth.sends

IdleAdminRequest ==
    [pc |-> "idle", route |-> "revoke", hdr |-> NoHeader, arg |-> 0,
     user |-> "none", accepted |-> FALSE, found |-> Null, queries |-> 0,
     sends |-> <<>>, ran |-> FALSE]

GuardInit ==
    /\ now = 0
    /\ store \in Tables(MaxRows, 0)
    /\ nextId = Cardinality(DOMAIN store) + 1
    /\ pc = [p \in Tasks |-> IF p = "boot" THEN "done" ELSE "idle"]
    /\ newId = [p \in Tasks |-> 0]
    /\ age = [p \in Tasks |-> 0]
    /\ sweeps = 0
    /\ connections = {}
    /\ solo = [p \in Tasks |-> TRUE]
    /\ minted = {}
    /\ req = IdleAdminRequest
    /\ lastReject = Null
    /\ seen = {}
    /\ ret = Null
    /\ ws = NoSessions
    /\ during = "none"
    /\ tick = NoTick
    /\ since = NoSince

\* DELETE /api/keys/:id arrives; its preHandler is fastify.verifyAdmin
AdminReceive ==
    /\ req.pc \in {"idle", "done"}
    /\ \E h \in Headers, a \in Ids(store) \cup {0}, u \in Users :
           req' = [IdleAdminRequest EXCEPT !.pc = "verifyAdmin", !.hdr = h,
                                           !.arg = a, !.user = u]
    /\ UNCHANGED <<schedVars, lastReject, seen, ret, ws, during, tick, since>>

\* The hook runs to its return. A reply sent by then ends the request;
\* otherwise the lifecycle passes to the route's handler.
VerifyAdmin ==
    /\ req.pc = "verifyAdmin"
    /\ \E thrown \in BOOLEAN :
           LET auth == VerifyApiKey(VerifyApiKeyReceiver, req.hdr, store, now,
                                    thrown)
               out == VerifyAdminSends(auth, req.user)
           IN  req' = [req EXCEPT !.pc = IF out = <<>> THEN "handler"
                                         ELSE "done",
                                  !.accepted = ~auth.threw
                                               /\ auth.value = "none",
                                  !.found = auth.found,
                                  !.queries = auth.queries,
                                  !.sends = out]
    /\ UNCHANGED <<schedVars, lastReject, seen, ret, ws, during, tick, since>>

GuardTick == now < MaxAuthTime /\ Tick

GuardNext ==
    \/ GuardTick
    \/ AdminReceive
    \/ VerifyAdmin

SpecGuard == GuardInit /\ [][GuardNext]_vars

---------------------------------------------------------------------------
(* The daily purge of inactive rows, run among the operations that make a
   row inactive: rotateKeys, deactivateOldApiKey and DELETE /api/keys/:id.
   since records, for each inactive row, the instant of the write that
   cleared its is_active flag. *)

MaxPurgeRows == 2

\* the instants at which the operations are called
PurgeInstants == {1, PurgeAge, PurgeAge + 1, PurgeAge + 2, 2 * PurgeAge + 3}

\* the record kept after an operation took the table from s to s2 at t
Deactivated(old, s, s2, t) ==
    [i \in {j \in Ids(s2) : ~s2[j].isActive} |->
        IF i \in Ids(s) /\ s[i].isActive THEN t
        ELSE IF i \in DOMAIN old THEN old[i] ELSE t]

PurgeWrite(s2) ==
    /\ store' = s2
    /\ since' = Deactivated(since, store, s2, now)
    /\ UNCHANGED <<now, pc, newId, age, sweeps, connections, solo, minted,
                   req, lastReject, seen, ret, ws, during, tick>>

PurgeTick ==
    /\ \E t \in PurgeInstants : t > now /\ now' = t
    /\ UNCHANGED <<store, nextId, pc, newId, age, sweeps, connections, solo,
                   minted, req, lastReject, seen, ret, ws, during, tick, since>>

PurgeRotateKeys ==
    /\ nextId <= MaxPurgeRows
    /\ PurgeWrite(RotateKeys(store, nextId, now))
    /\ nextId' = nextId + 1

PurgeRotateApiKeys ==
    /\ nextId <= MaxPurgeRows
    /\ PurgeWrite(InsertOverlapping(store, nextId, now))
    /\ nextId' = nextId + 1

\* deactivateOldApiKey run to completion
PurgeDeactivateOldApiKey ==
    /\ \E latest \in LatestActive(store) :
           PurgeWrite(DeactivateOldApiKey(store, latest, now))
    /\ UNCHANGED nextId

PurgeRevoke ==
    /\ \E id \in Ids(store) : PurgeWrite(RevokeKey(store, id))
    /\ UNCHANGED nextId

PurgeCleanupOldApiKeys ==
    /\ PurgeWrite(CleanupOldApiKeys(store, now))
    /\ UNCHANGED nextId

PurgeNext ==
    \/ PurgeTick
    \/ PurgeRotateKeys
    \/ PurgeRotateApiKeys
    \/ PurgeDeactivateOldApiKey
    \/ PurgeRevoke
    \/ PurgeCleanupOldApiKeys

SpecPurge == OpsInit /\ [][PurgeNext]_vars

---------------------------------------------------------------------------
(* Claims checked against Spec *)

\* C1: in every state after the first rotateKeys call has completed, at
\* least one row is active and unexpired.  Stated for the runs in which no
\* two rotateKeys calls overlapped (with overlapping calls C3_LastWriteWins
\* already leaves no active row).
C1_ValidKeyAfterFirstRotation ==
    (minted # {} /\ \A p \in Tasks : solo[p]) => ValidIds(store, now) # {}

\* C2: between the store operations of a rotateKeys call that no other
\* rotation overlaps, the row it inserted is in the table, active and
\* unexpired (so a findValidKey read finds a valid key), before any older
\* row has been deactivated by it.
C2_NewKeyVisibleBeforeDeactivation ==
    \A p \in Tasks :
        (pc[p] \in {"reread", "deactivate"} /\ solo[p])
            => newId[p] \in ValidIds(store, now)

C2_Witness ==
    /\ pc["cron"] = "deactivate"
    /\ solo["cron"]
    /\ \E i \in ValidIds(store, now) : i # newId["cron"]

\* C3: when two rotateKeys calls overlapped, the step that completes the
\* later one leaves exactly one active row, minted by one of the two.
C3_LastWriteWins ==
    [][\A p \in Tasks :
          (/\ pc[p] = "deactivate" /\ pc'[p] # "deactivate"
           /\ ~solo[p] /\ ~InRotate(Other(p)))
              => \E q \in Tasks : ActiveIds(store') = {newId[q]}]_vars

---------------------------------------------------------------------------
(* Claims checked against SpecAuth *)

UniformRejection ==
    [status |-> 401, success |-> FALSE, message |-> "Invalid API key"]

\* C4: the handler of a guarded route runs only for a request whose header
\* value findValidKey matched to an active, unexpired row during the hook;
\* a request without such a match is answered 401 and its handler never runs.
C4_HandlerOnlyAfterMatch ==
    /\ (req.ran \/ req.pc = "handler") =>
           /\ req.hdr # NoHeader
           /\ req.queries = 1
           /\ req.found # Null
           /\ req.found[1].key = HeaderKey(req.hdr)
           /\ req.found[1].isActive
    /\ (req.pc = "done" /\ req.found = Null) =>
           /\ ~req.ran
           /\ req.reply = Some(UniformRejection)

C4_Witness ==
    /\ req.pc = "done" /\ req.ran
    /\ lastReject # Null /\ lastReject[1].reason = "error"

\* C5: a request without x-api-key is answered with the uniform 401 and no
\* findValidKey query is issued for it.
C5_NoHeaderNoQuery ==
    (req.pc # "idle" /\ req.hdr = NoHeader) =>
        /\ req.pc = "done"
        /\ req.queries = 0
        /\ ~req.ran
        /\ req.reply = Some(UniformRejection)

C5_Witness ==
    /\ req.pc = "done" /\ req.hdr = NoHeader /\ req.queries = 0
    /\ ValidIds(store, now) # {}

\* C6: every rejection carries the same reply, whatever the reason (header
\* missing, key unknown, expired or revoked): the replies of any two
\* rejected requests are equal.
C6_UniformRejection ==
    /\ Rejected(req) => req.reply = Some(UniformRejection)
    /\ (Rejected(req) /\ lastReject # Null) => lastReject[1].reply = req.reply

C6_Witness ==
    /\ Rejected(req) /\ lastReject # Null
    /\ req.reason = "revoked"
    /\ lastReject[1].reason \in {"missing", "expired", "unknown"}

\* C7: findValidKey(key) returns a row of the table with that key, active
\* and with expiresAt > now, when there is one, and null otherwise.
C7_FindValidExact ==
    \A k \in Tokens :
        LET f == FindValidKey(store, k, now)
            ok == {i \in Ids(store) : /\ store[i].key = k
                                      /\ store[i].isActive
                                      /\ store[i].expiresAt > now}
        IN  IF ok = {} THEN f = Null
            ELSE f # Null /\ \E i \in ok : f[1] = store[i]

C7_Witness ==
    \E i, j \in Ids(store) :
        /\ FindValidKey(store, store[i].key, now) = Some(store[i])
        /\ store[j].isActive /\ store[j].expiresAt = now
        /\ FindValidKey(store, store[j].key, now) = Null
        /\ FindValidKey(store, 0, now) = Null
        /\ req.pc = "handler"

---------------------------------------------------------------------------
(* Claims checked against SpecOps *)

\* C9: after n >= 1 rotate calls made one after another on an empty table
\* (rotateKeys or rotateApiKeys, nothing else), the table holds n rows, exactly
\* one of them is active and it is the row of the last call.
C9_SequentialRotations ==
    (seen # {} /\ seen \subseteq {"rotateKeys", "rotateApiKeys"}) =>
        /\ Ids(store) = 1..(nextId - 1)
        /\ ActiveIds(store) = {nextId - 1}

\* C9, amended: the statement holds for the rotateKeys calls of the
\* single-active-key policy; after n rotateApiKeys calls of the overlap policy
\* the table holds n rows and all of them are active.
C9_SequentialRotateKeys ==
    /\ seen = {"rotateKeys"} =>
           /\ Ids(store) = 1..(nextId - 1)
           /\ ActiveIds(store) = {nextId - 1}
           /\ \A i \in 1..(nextId - 2) : ~store[i].isActive
    /\ seen = {"rotateApiKeys"} =>
           /\ Ids(store) = 1..(nextId - 1)
           /\ ActiveIds(store) = Ids(store)

C9_Witness ==
    /\ seen = {"rotateKeys"}
    /\ nextId - 1 >= 2
    /\ store[nextId - 1].createdAt > store[1].createdAt

\* C10: no operation changes the expiresAt of a row that exists before and
\* after it: rotateKeys' deactivation, deactivateOldApiKey, the revocation and
\* the cleanup sweeps leave the value the row was created with.
C10_ExpiresAtImmutable ==
    [][\A i \in Ids(store) \cap Ids(store') :
           store'[i].expiresAt = store[i].expiresAt]_vars

C10_Witness ==
    \E i, j \in Ids(store) :
        /\ i # j
        /\ ~store[i].isActive /\ store[i].updatedAt > store[i].createdAt
        /\ ~store[j].isActive /\ store[j].updatedAt = store[j].createdAt
        /\ store[i].expiresAt = store[i].createdAt + OverlapLifetime
        /\ store[j].expiresAt > now
        /\ {"rotateKeys", "other"} \subseteq seen

\* C11: a cleanup sweep (deleteExpiredKeys, cleanupExpiredApiKeys) removes
\* exactly the rows with expiresAt <= now, active or not, leaves the others
\* as they were and returns the number removed (where it returns a value:
\* cleanupExpiredApiKeys only logs the count); a second call before any
\* insert or clock advance returns 0.
C11_DeleteExpiredExact ==
    [][(OpDeleteExpiredKeys \/ OpCleanupExpiredApiKeys) =>
           /\ Ids(store') = {i \in Ids(store) : store[i].expiresAt > now}
           /\ \A i \in Ids(store') : store'[i] = store[i]
           /\ ret'[1].value # Null =>
                  ret'[1].value =
                      Some(Cardinality({i \in Ids(store) : store[i].expiresAt <= now}))
           /\ (ret # Null /\ ret[1].op = ret'[1].op /\ ret'[1].value # Null) =>
                  ret'[1].value = Some(0)
      ]_vars

---------------------------------------------------------------------------
(* Claims checked against SpecWs *)

\* C12: a broadcast attempts one send to every connection registered when it
\* starts, returns the number of sends that did not throw, and leaves the
\* registry equal to the prior registry minus the connections whose send
\* threw.
C12_BroadcastExact ==
    [][(WsBroadcast \/ WsBroadcastFallback) =>
           LET v == ret'[1].value
           IN  /\ v.sent = connections
               /\ v.count = Cardinality(connections \ v.threw)
               /\ connections' = connections \ v.threw
      ]_vars

\* C13: a handshake on /ws whose authentication fails (header absent, no
\* valid row, store read throwing) has sent exactly one error frame to the
\* socket the client still holds, has closed the socket and has not registered
\* the connection.
C13_FailedHandshake ==
    \A c \in Conns :
        (ws[c].route = "ws" /\ ws[c].pc = "rejected" /\ ~ws[c].leftFirst) =>
            /\ ws[c].errors = 1
            /\ ws[c].sock = "closed"
            /\ c \notin connections

\* C14: every connection in the registry passed the findValidKey check of
\* its handshake.
C14_RegisteredAuthenticated ==
    \A c \in connections : ws[c].passed

C16_OpenAtRegistration ==
    \A c \in Conns : ws[c].handlers => ws[c].openAtAdd

\* C17: once the socket of a registered connection has closed, its clientId
\* is eventually absent from the registry.
C17_ClosedEventuallyRemoved ==
    \A c \in Conns :
        [](((ws[c].pc = "registered" /\ ws[c].sock = "closed"))
               => <>(c \notin connections))

\* C20 as stated: whenever deactivateOldApiKey completes with no rotation
\* between its two queries, the active rows are exactly the newest row that
\* was active when it started; with no active row it changes nothing.
C20_DeactivateLeavesLatest ==
    [][/\ (OpDeactivateOldApiKey /\ during # "rotate") =>
              ActiveIds(store') = {newId["cron"]}
       /\ (OpLatestActiveKey /\ ActiveIds(store) = {}) =>
              (store' = store /\ pc' = pc)]_vars

\* C20: when deactivateOldApiKey completes with no other write to the table
\* between its two queries, the active rows are exactly {m}, m being a row
\* active at the start that no active row was created after; the rows keep
\* every other column but updated_at; with no active row nothing changes.
C20_DeactivateAloneLeavesLatest ==
    [][/\ (OpDeactivateOldApiKey /\ during = "none") =>
              LET m == newId["cron"] IN
              /\ m \in ActiveIds(store)
              /\ \A j \in ActiveIds(store) : store[j].createdAt <= store[m].createdAt
              /\ ActiveIds(store') = {m}
              /\ Ids(store') = Ids(store)
              /\ \A i \in Ids(store) :
                     store'[i] = [store[i] EXCEPT !.isActive = (i = m),
                                                 !.updatedAt = store'[i].updatedAt]
       /\ (OpLatestActiveKey /\ ActiveIds(store) = {}) =>
              (store' = store /\ pc' = pc)]_vars

\* two older rows of the overlap policy were deactivated together, the newest
\* one is the only active row
C20_Witness ==
    /\ ~Deactivating /\ during = "none"
    /\ seen = {"rotateApiKeys", "other"}
    /\ Cardinality(ActiveIds(store)) = 1
    /\ \E i, j \in Ids(store) \ ActiveIds(store) :
           /\ i # j
           /\ store[i].updatedAt = now /\ store[j].updatedAt = now
           /\ store[i].createdAt < now /\ store[j].createdAt < now
    /\ \A m \in ActiveIds(store) : \A j \in Ids(store) :
           store[j].createdAt <= store[m].createdAt

\* C19: when the first scheduled rotation fires after a completed startup,
\* the table holds an active, unexpired row, whatever it held at boot.
C19_ValidKeyBeforeFirstTick ==
    [][(pc["boot"] = "done" /\ pc["cron"] = "idle" /\ pc'["cron"] = "select"
            /\ now' = RotatePeriod)
          => ValidIds(store, now) # {}]_vars

\* C18: once a store call of a scheduled rotation has failed, whatever that
\* scheduled run does afterwards (the deactivation it arms included) writes
\* nothing more to the table; the next cron firing starts a fresh run.
C18_TickAbandonedOnFailure ==
    [][(tick.failed /\ tick'.runs = tick.runs) => store' = store]_vars

---------------------------------------------------------------------------
(* Claims checked against SpecTick *)

\* C21: in the overlap policy the key that was the newest valid one just
\* before a rotation instant is still in the table, active and unexpired in
\* every state from that instant until the deactivation timer expires.
C21_PredecessorValidInWindow ==
    (tick.policy = "overlap" /\ tick.prev # 0
        /\ tick.pos \in {"select", "insert", "timer"})
    => /\ tick.prev \in Ids(store)
       /\ store[tick.prev].isActive
       /\ store[tick.prev].expiresAt > now

\* C23: in the overlap policy at most two rows are active in every state.
C23_AtMostTwoActive ==
    tick.policy = "overlap" => Cardinality(ActiveIds(store)) <= 2

\* C27: when a rotateKeys call of the scheduled rotation has failed at one
\* of its store operations, the table does not hold the row the call
\* inserted together with an older row that is still active.
C27_FailedRotationAtomic ==
    (tick.policy = "supersede" /\ tick.pos = "idle" /\ tick.failed /\ ~tick.rotated)
    => LET n == newId["cron"] IN
       (n \in Ids(store) /\ store[n].createdAt = now)
           => \A j \in Ids(store) \ {n} : ~store[j].isActive

\* C28: once the clock has reached a rotation instant and what the scheduler
\* started for it has come to rest without a store failure, that run has
\* rotated: a new active row was inserted.
C28_EveryTickRotates ==
    (tick.runs > 0 /\ ~tick.setup /\ ~tick.failed
        /\ tick.pos \in {"idle", "timer", "check", "latest", "update"})
    => tick.rotated

\* C29: within a scheduled rotation run the api_key_rotated broadcast is
\* made only once the rotation has gone through, and a run that has come to
\* rest has broadcast exactly once if its rotation went through and not at
\* all otherwise.
C29_BroadcastAfterRotation ==
    /\ tick.casts > 0 => tick.rotated
    /\ (tick.runs > 0 /\ ~tick.setup
           /\ tick.pos \in {"cleanup", "idle", "timer", "check", "latest", "update"})
       => tick.casts = IF tick.rotated THEN 1 ELSE 0

\* C30: when a scheduled rotation inserts its row, the row inserted by the
\* scheduled rotation one period earlier has not expired yet.
C30_SuccessorBeforeExpiry ==
    [][(tick.pos = "insert" /\ ~tick.setup /\ nextId' = nextId + 1)
          => \A i \in Ids(store) :
                 store[i].createdAt = now - TickPeriod(tick.policy)
                     => store[i].expiresAt > now]_vars

---------------------------------------------------------------------------
(* Claims checked against SpecAdmin *)

\* C22: in the single-active-key policy, with no rotateKeys call in progress,
\* at most one row is active.
C22_AtMostOneActive ==
    Cardinality(ActiveIds(store)) <= 1

---------------------------------------------------------------------------
(* Claims checked against SpecAuth: the revocation *)

---------------------------------------------------------------------------
(* Claims checked against SpecGuard *)

---------------------------------------------------------------------------
(* Claims checked against SpecPurge *)

\* the rows a purge step deletes
Purged == Ids(store) \ Ids(store')

\* the purge is the only operation that removes rows here
PurgeStep == Purged # {}

\* C25: the daily purge deletes a row only if the row is inactive and was
\* made inactive more than the retention window (7 days) before the purge;
\* it deletes no active row and no row deactivated less than 7 days earlier.
C25_PurgeOnlyLongInactive ==
    [][PurgeStep =>
          \A i \in Purged :
              /\ ~store[i].isActive
              /\ i \in DOMAIN since
              /\ since[i] < now - PurgeAge]_vars

\* what the delete statement guarantees: the purged rows are inactive and
\* their updated_at is more than 7 days old
PurgeByUpdatedAt ==
    [][PurgeStep =>
          \A i \in Purged :
              /\ ~store[i].isActive
              /\ store[i].updatedAt < now - PurgeAge]_vars

====
